---------------------------- MODULE Spec2Model ----------------------------
(***************************************************************************)
(* A model of oxford_dictionary/main.py: the fixed-capacity recency cache  *)
(* DictionaryEntryCache (a DataList of DictionaryEntry nodes with a        *)
(* traversal cursor), the two backing sources LocalDictionary and          *)
(* OxfordDictionary, and the orchestrator Dictionary.search.               *)
(*                                                                         *)
(* The list is modelled as a heap: node identifiers, a head reference, a   *)
(* next-link and a data field per allocated node, and the cursor           *)
(* "current".  Every handler is one action; its loops are RECURSIVE        *)
(* operators that take the same steps as the code.                         *)
(***************************************************************************)
EXTENDS Integers, Sequences, FiniteSets, TLC

(* ------------------------------ bounds --------------------------------- *)

\* Largest capacity a cache is constructed with in the model.
MaxCap == 3

\* Most objects under "entries" in a dictionary file of the model.
MaxFile == 2

(* ------------------------------ values --------------------------------- *)

\* Python's None, for a node reference that is absent.
Nil == 0

\* Node identifiers: capacity + 1 nodes are linked right after a head
\* insertion, and one more may still be referenced by the cursor.
Nodes == 1..(MaxCap + 2)

Words == {"run", "Run", "walk"}

Definitions == {"d1", "d2"}

\* str.lower() on the words of the model.
Lower(w) == IF w = "Run" THEN "run" ELSE w

\* DictionaryEntry(word, part_of_speech, definition, example): the fields
\* other than word are folded into one.
DictionaryEntry(w, d) == [type |-> "DictionaryEntry", word |-> w, definition |-> d]

Entries == {DictionaryEntry(w, d) : w \in Words, d \in Definitions}

\* The string OxfordDictionary.search returns when the response has no "id".
WordNotFound == [type |-> "str", word |-> "", definition |-> "word not found"]

\* No value at all (a call that raised, or nothing evicted).
NoValue == [type |-> "NoneType", word |-> "", definition |-> ""]

\* isinstance(entry, DictionaryEntry)
IsDictionaryEntry(v) == v.type = "DictionaryEntry"

(* ------------------------- DataList (datalist) ------------------------- *)
(* A list state is a record [head, next, data, current, count, capacity];  *)
(* next and data are functions on the allocated nodes.                     *)

\* The nodes from n along the next-links, at most fuel of them.
RECURSIVE Walk(_, _, _)
Walk(nxt, n, fuel) ==
    IF n = Nil \/ fuel = 0 \/ n \notin DOMAIN nxt THEN <<>>
    ELSE <<n>> \o Walk(nxt, nxt[n], fuel - 1)

\* The nodes of the list, head first.
Chain(S) == Walk(S.next, S.head, Cardinality(Nodes) + 1)

Range(s) == {s[i] : i \in 1..Len(s)}

\* The values held by the list, head first.
Contents(S) ==
    LET c == Chain(S)
    IN  [i \in 1..Len(c) |-> S.data[c[i]]]

\* Node(data): a node not referenced by anything.
NewNode(S) == CHOOSE n \in Nodes \ DOMAIN S.next : \A m \in Nodes \ DOMAIN S.next : n <= m

\* DataList.add_to_head(data)
AddToHead(S, v) ==
    LET n == NewNode(S)
    IN  [S EXCEPT !.head = n,
                  !.next = (n :> S.head) @@ S.next,
                  !.data = (n :> v) @@ S.data]

\* DataList.reset_current()
ResetCurrent(S) == [S EXCEPT !.current = Nil]

\* DataList.iterate(): moves the cursor to the node after it (the first node
\* when the cursor was reset) and returns it; None when exhausted.
Iterate(S) ==
    [S EXCEPT !.current = IF S.current = Nil THEN S.head ELSE S.next[S.current]]

\* DataNode.remove_after(): unlinks the node after n (n.next is not None).
RemoveAfter(S, n) == [S EXCEPT !.next[n] = S.next[S.next[n]]]

\* DataList.remove(data): unlinks the first node holding v; the list is
\* unchanged when there is none (the caller sees found = FALSE, a KeyError).
Remove(S, v) ==
    LET c == Chain(S)
        hits == {i \in 1..Len(c) : S.data[c[i]] = v}
    IN  IF hits = {} THEN [st |-> S, found |-> FALSE]
        ELSE LET i == CHOOSE k \in hits : \A j \in hits : k <= j
             IN  [st |-> IF i = 1 THEN [S EXCEPT !.head = S.next[c[1]]]
                         ELSE [S EXCEPT !.next[c[i - 1]] = S.next[c[i]]],
                  found |-> TRUE]

\* The nodes something still refers to: those of the list, head first, then
\* those only the cursor leads to.
Live(S) ==
    LET c == Chain(S)
        w == Walk(S.next, S.current, Cardinality(Nodes) + 1)
    IN  c \o SelectSeq(w, LAMBDA n : n \notin Range(c))

\* Where node n stands in the sequence of nodes s (Nil stays Nil).
Address(s, n) ==
    IF n = Nil THEN Nil
    ELSE CHOOSE k \in 1..Len(s) : s[k] = n /\ \A j \in 1..(k - 1) : s[j] # n

\* Reference counting: a node is freed once neither the head nor the cursor
\* leads to it.  The nodes kept are renamed by their place in Live(S): which
\* identifier a node has is not observable.
Collect(S) ==
    LET s == Live(S)
        ids == {Address(s, n) : n \in Range(s)}
        node(k) == s[k]
    IN  [S EXCEPT !.head = Address(s, S.head),
                  !.current = Address(s, S.current),
                  !.next = [k \in ids |-> Address(s, S.next[node(k)])],
                  !.data = [k \in ids |-> S.data[node(k)]]]

(* ------------------------ DictionaryEntryCache ------------------------- *)

\* DictionaryEntryCache.__init__(capacity), for capacity >= 1.
NewCache(cap) ==
    [head |-> Nil, next |-> <<>>, data |-> <<>>, current |-> Nil,
     count |-> 0, capacity |-> cap]

\* As __init__, without the capacity check.
CacheInitUnchecked(cap) == [st |-> NewCache(cap), exc |-> "none"]

\* DictionaryEntryCache(capacity): the constructor call, which raises
\* ValueError (and hands out no object) for a capacity below 1.
CacheInit(cap) ==
    IF cap < 1 THEN [st |-> NewCache(cap), exc |-> "ValueError"]
    ELSE [st |-> NewCache(cap), exc |-> "none"]

\* The while loop of remove_tail, from the iterate() that feeds it.  Beside
\* the list state and the exception raised, the result lists the DataList
\* calls made, in order (ev).
RECURSIVE RemoveTailLoop(_, _)
RemoveTailLoop(S, fuel) ==
    LET S1 == Iterate(S)
        cur == S1.current
    IN  IF fuel = 0 THEN [st |-> S1, exc |-> "Diverges", ev |-> <<"iterate">>]
        ELSE IF cur = Nil THEN [st |-> S1, exc |-> "none", ev |-> <<"iterate">>]
        ELSE IF S1.next[cur] = Nil THEN [st |-> S1, exc |-> "RuntimeError", ev |-> <<"iterate">>]
        ELSE IF S1.next[S1.next[cur]] = Nil
             THEN [st |-> RemoveAfter(S1, cur), exc |-> "none", ev |-> <<"iterate", "remove_after">>]
        ELSE [RemoveTailLoop(S1, fuel - 1) EXCEPT !.ev = <<"iterate">> \o @]

\* As remove_tail, but it unlinks the node after the first one.
RemoveTailSecond(S) ==
    LET S1 == Iterate(ResetCurrent(S))
    IN  [st |-> [RemoveAfter(S1, S1.current) EXCEPT !.count = @ - 1], exc |-> "none",
         ev |-> <<"reset_current", "iterate", "remove_after">>]

\* As remove_tail, but count is left as it was.
RemoveTailNoCount(S) ==
    [RemoveTailLoop(ResetCurrent(S), Cardinality(Nodes) + 1) EXCEPT !.ev = <<"reset_current">> \o @]

\* DictionaryEntryCache.remove_tail()
RemoveTail(S) ==
    LET r == RemoveTailLoop(ResetCurrent(S), Cardinality(Nodes) + 1)
        ev == <<"reset_current">> \o r.ev
    IN  IF r.exc = "none" THEN [st |-> [r.st EXCEPT !.count = @ - 1], exc |-> "none", ev |-> ev]
        ELSE [r EXCEPT !.ev = ev]

\* As add, without the isinstance check.
CacheAddUnchecked(S, entry) ==
    LET S1 == [AddToHead(S, entry) EXCEPT !.count = @ + 1]
    IN  IF S1.count > S1.capacity THEN [RemoveTail(S1) EXCEPT !.ev = <<"add_to_head">> \o @]
        ELSE [st |-> S1, exc |-> "none", ev |-> <<"add_to_head">>]

\* As add, but it evicts only once count exceeds capacity + 1.
CacheAddLate(S, entry) ==
    IF ~IsDictionaryEntry(entry) THEN [st |-> S, exc |-> "TypeError", ev |-> <<>>]
    ELSE LET S1 == [AddToHead(S, entry) EXCEPT !.count = @ + 1]
         IN  IF S1.count > S1.capacity + 1 THEN [RemoveTail(S1) EXCEPT !.ev = <<"add_to_head">> \o @]
             ELSE [st |-> S1, exc |-> "none", ev |-> <<"add_to_head">>]

\* As add, but it evicts as soon as count reaches capacity.
CacheAddEager(S, entry) ==
    IF ~IsDictionaryEntry(entry) THEN [st |-> S, exc |-> "TypeError", ev |-> <<>>]
    ELSE LET S1 == [AddToHead(S, entry) EXCEPT !.count = @ + 1]
         IN  IF S1.count >= S1.capacity THEN [RemoveTail(S1) EXCEPT !.ev = <<"add_to_head">> \o @]
             ELSE [st |-> S1, exc |-> "none", ev |-> <<"add_to_head">>]

\* DictionaryEntryCache.add(entry)
CacheAdd(S, entry) ==
    IF ~IsDictionaryEntry(entry) THEN [st |-> S, exc |-> "TypeError", ev |-> <<>>]
    ELSE LET S1 == [AddToHead(S, entry) EXCEPT !.count = @ + 1]
         IN  IF S1.count > S1.capacity THEN [RemoveTail(S1) EXCEPT !.ev = <<"add_to_head">> \o @]
             ELSE [st |-> S1, exc |-> "none", ev |-> <<"add_to_head">>]

\* The while loop of search, from the iterate() that feeds it.
RECURSIVE SearchLoop(_, _, _)
SearchLoop(S, word, fuel) ==
    LET S1 == Iterate(S)
        cur == S1.current
    IN  IF fuel = 0 THEN [st |-> S1, exc |-> "Diverges", entry |-> NoValue, ev |-> <<"iterate">>]
        ELSE IF cur = Nil THEN [st |-> S1, exc |-> "KeyError", entry |-> NoValue, ev |-> <<"iterate">>]
        ELSE IF S1.data[cur].word = word
             THEN LET entry == S1.data[cur]
                      r == Remove(S1, entry)
                  IN  IF r.found
                      THEN [st |-> AddToHead(r.st, entry), exc |-> "none", entry |-> entry,
                            ev |-> <<"iterate", "remove", "add_to_head">>]
                      ELSE [st |-> r.st, exc |-> "KeyError", entry |-> NoValue,
                            ev |-> <<"iterate", "remove">>]
        ELSE [SearchLoop(S1, word, fuel - 1) EXCEPT !.ev = <<"iterate">> \o @]

\* As search, but a hit is returned without being moved to the head.
CacheSearchNoPromote(S, word) ==
    LET c == Chain(S)
        hits == {i \in 1..Len(c) : S.data[c[i]].word = word}
    IN  IF hits = {}
        THEN [st |-> [S EXCEPT !.current = Nil], exc |-> "KeyError", entry |-> NoValue,
              ev |-> <<"reset_current">> \o [k \in 1..(Len(c) + 1) |-> "iterate"]]
        ELSE LET i == CHOOSE k \in hits : \A j \in hits : k <= j
             IN  [st |-> [S EXCEPT !.current = c[i]], exc |-> "none", entry |-> S.data[c[i]],
                  ev |-> <<"reset_current">> \o [k \in 1..i |-> "iterate"]]

\* As search, but the match farthest from the head is the one taken.
CacheSearchLast(S, word) ==
    LET c == Chain(S)
        hits == {i \in 1..Len(c) : S.data[c[i]].word = word}
    IN  IF hits = {}
        THEN [st |-> [S EXCEPT !.current = Nil], exc |-> "KeyError", entry |-> NoValue,
              ev |-> <<"reset_current">> \o [k \in 1..(Len(c) + 1) |-> "iterate"]]
        ELSE LET i == CHOOSE k \in hits : \A j \in hits : k >= j
                 entry == S.data[c[i]]
             IN  [st |-> AddToHead(Remove([S EXCEPT !.current = c[i]], entry).st, entry),
                  exc |-> "none", entry |-> entry,
                  ev |-> <<"reset_current">> \o [k \in 1..i |-> "iterate"] \o <<"remove", "add_to_head">>]

\* As search, but a match is put at the head without being unlinked first.
CacheSearchNoRemove(S, word) ==
    LET r == SearchLoop(ResetCurrent(S), word, Cardinality(Nodes) + 1)
        c == Chain(S)
        hits == {i \in 1..Len(c) : S.data[c[i]].word = word}
    IN  IF hits = {} THEN [r EXCEPT !.ev = <<"reset_current">> \o @]
        ELSE [st |-> AddToHead([S EXCEPT !.current = r.st.current], r.entry),
              exc |-> "none", entry |-> r.entry,
              ev |-> <<"reset_current">> \o [k \in 1..(Len(r.ev) - 2) |-> "iterate"] \o <<"add_to_head">>]

\* As search, but the scan goes on from where the cursor was left.
CacheSearchNoReset(S, word) == SearchLoop(S, word, Cardinality(Nodes) + 1)

\* DictionaryEntryCache.search(word)
CacheSearch(S, word) ==
    [SearchLoop(ResetCurrent(S), word, Cardinality(Nodes) + 1) EXCEPT !.ev = <<"reset_current">> \o @]

(* --------------------------- backing sources --------------------------- *)

\* A key a JSON object does not have.
Missing == "(missing)"

\* The JSON objects a dictionary file may list under "entries": with or
\* without "word", with or without the other required keys.
JsonObjects ==
    {[type |-> "dict", word |-> w, definition |-> d] :
        w \in Words \cup {Missing}, d \in Definitions \cup {Missing}}

\* LocalDictionary.dictionary_entry_decoder(o): a DictionaryEntry when the
\* required keys are there, o itself when the lookup of a key raised.
DictionaryEntryDecoder(o) ==
    IF o.word # Missing /\ o.definition # Missing
    THEN DictionaryEntry(o.word, o.definition)
    ELSE o

\* The for loop of LocalDictionary.__init__ over the decoded objects objs,
\* from the mapping dict: a later entry replaces an earlier one of its word.
RECURSIVE LoadEntries(_, _)
LoadEntries(objs, dict) ==
    IF objs = <<>> THEN dict
    ELSE LET d == DictionaryEntryDecoder(Head(objs))
         IN  LoadEntries(Tail(objs),
                         IF IsDictionaryEntry(d)
                         THEN [w \in DOMAIN dict \cup {d.word} |-> IF w = d.word THEN d ELSE dict[w]]
                         ELSE dict)

\* LocalDictionary(file).dictionary
LocalDictionaryInit(objs) == LoadEntries(objs, [w \in {} |-> NoValue])

\* As LocalDictionary.search, but a miss stores an empty record under the key.
LocalDictionarySearchStores(dict, word) ==
    IF word \in DOMAIN dict
    THEN [exc |-> "none", value |-> dict[word], dictionary |-> dict]
    ELSE [exc |-> "KeyError", value |-> NoValue,
          dictionary |-> [w \in DOMAIN dict \cup {word} |-> IF w = word THEN NoValue ELSE dict[w]]]

\* As LocalDictionary.search, but the key is looked up lower-cased.
LocalDictionarySearchLower(dict, word) ==
    IF Lower(word) \in DOMAIN dict
    THEN [exc |-> "none", value |-> dict[Lower(word)], dictionary |-> dict]
    ELSE [exc |-> "KeyError", value |-> NoValue, dictionary |-> dict]

\* LocalDictionary.search(word) on the mapping dict: self.dictionary[word].
LocalDictionarySearch(dict, word) ==
    IF word \in DOMAIN dict
    THEN [exc |-> "none", value |-> dict[word], dictionary |-> dict]
    ELSE [exc |-> "KeyError", value |-> NoValue, dictionary |-> dict]

\* The words of the dictionary.json the Dictionary's source loads.  "Run" is
\* not among them.
LocalWords == {"run", "walk"}

\* The mapping the Dictionary's LocalDictionary has loaded.
LocalEntries == [w \in LocalWords |-> DictionaryEntry(w, "d1")]

\* LocalDictionary.search(word) on the mapping the Dictionary's source loaded.
LocalSearch(word) ==
    LET r == LocalDictionarySearch(LocalEntries, word)
    IN  [exc |-> r.exc, value |-> r.value]

\* The status code the remote lookup service answers a found entry with.
StatusOK == 200

\* What the service may answer to GET .../entries/en-gb/<word_id>: a status,
\* and a JSON body with or without "id" and with or without "results".  The
\* service sees only the lower-cased word, and names it in "id".
Responses(word_id) ==
    {[status |-> 404, hasId |-> FALSE, hasResults |-> FALSE, id |-> "", definition |-> ""],
     [status |-> StatusOK, hasId |-> FALSE, hasResults |-> FALSE, id |-> "", definition |-> ""],
     [status |-> StatusOK, hasId |-> TRUE, hasResults |-> FALSE, id |-> word_id, definition |-> ""]}
    \cup {[status |-> StatusOK, hasId |-> TRUE, hasResults |-> TRUE, id |-> word_id, definition |-> d] :
             d \in Definitions}

\* No request was made.
NoResponse == [status |-> 0, hasId |-> FALSE, hasResults |-> FALSE, id |-> "", definition |-> ""]

\* OxfordDictionary.search(word), given the service's response to the request
\* for word.lower().  `status_resp is not 200` compares as != does for the
\* status codes of the model; a body that is not JSON is not modelled.
OxfordSearch(word, resp) ==
    IF resp.status # StatusOK THEN [exc |-> "KeyError", value |-> NoValue]
    ELSE IF ~resp.hasId THEN [exc |-> "none", value |-> WordNotFound]
    ELSE IF ~resp.hasResults THEN [exc |-> "KeyError", value |-> NoValue]
    ELSE [exc |-> "none", value |-> DictionaryEntry(resp.id, resp.definition)]

\* DictionarySource, without CACHE: the sources Dictionary.__init__ accepts.
Sources == {"LOCAL", "OXFORD_ONLINE"}

\* self.dictionary.search(word) for the configured source.
SourceSearch(src, word, resp) ==
    IF src = "LOCAL" THEN LocalSearch(word) ELSE OxfordSearch(word, resp)

\* The capacity Dictionary.__init__ constructs its cache with.
DictionaryCapacity == 1

(* ------------------------------ Dictionary ----------------------------- *)

\* As Dictionary.search, but the source is queried before the cache.
DictSearchSourceFirst(S, src, word, resp) ==
    LET s == SourceSearch(src, word, resp)
        c == CacheSearch(S, word)
    IN  IF s.exc = "none" /\ IsDictionaryEntry(s.value)
        THEN [st |-> CacheAdd(S, s.value).st, exc |-> "none", entry |-> s.value,
              tier |-> src, calls |-> <<"source.search", "cache.add">>]
        ELSE [st |-> c.st, exc |-> c.exc, entry |-> c.entry,
              tier |-> IF c.exc = "none" THEN "CACHE" ELSE "",
              calls |-> <<"source.search", "cache.search">>]

\* As Dictionary.search, but a record found in the source is not cached.
DictSearchNoAdd(S, src, word, resp) ==
    LET c == CacheSearch(S, word)
        s == SourceSearch(src, word, resp)
    IN  IF c.exc = "none"
        THEN [st |-> c.st, exc |-> "none", entry |-> c.entry, tier |-> "CACHE",
              calls |-> <<"cache.search">>]
        ELSE IF s.exc # "none"
        THEN [st |-> c.st, exc |-> s.exc, entry |-> NoValue, tier |-> "",
              calls |-> <<"cache.search", "source.search">>]
        ELSE [st |-> c.st, exc |-> "none", entry |-> s.value, tier |-> src,
              calls |-> <<"cache.search", "source.search">>]

\* As Dictionary.search, but a record found in the cache is added again.
DictSearchAddOnHit(S, src, word, resp) ==
    LET c == CacheSearch(S, word)
        s == SourceSearch(src, word, resp)
    IN  IF c.exc = "none"
        THEN [st |-> CacheAdd(c.st, c.entry).st, exc |-> "none", entry |-> c.entry,
              tier |-> "CACHE", calls |-> <<"cache.search", "cache.add">>]
        ELSE IF s.exc # "none"
        THEN [st |-> c.st, exc |-> s.exc, entry |-> NoValue, tier |-> "",
              calls |-> <<"cache.search", "source.search">>]
        ELSE LET a == CacheAdd(c.st, s.value)
             IN  [st |-> a.st, exc |-> a.exc,
                  entry |-> IF a.exc = "none" THEN s.value ELSE NoValue,
                  tier |-> IF a.exc = "none" THEN src ELSE "",
                  calls |-> <<"cache.search", "source.search", "cache.add">>]

\* Dictionary.search(word)
DictSearch(S, src, word, resp) ==
    LET c == CacheSearch(S, word)
    IN  IF c.exc = "none"
        THEN [st |-> c.st, exc |-> "none", entry |-> c.entry, tier |-> "CACHE",
              calls |-> <<"cache.search">>]
        ELSE IF c.exc # "KeyError"
        THEN [st |-> c.st, exc |-> c.exc, entry |-> NoValue, tier |-> "",
              calls |-> <<"cache.search">>]
        ELSE LET s == SourceSearch(src, word, resp)
             IN  IF s.exc # "none"
                 THEN [st |-> c.st, exc |-> s.exc, entry |-> NoValue, tier |-> "",
                       calls |-> <<"cache.search", "source.search">>]
                 ELSE LET a == CacheAdd(c.st, s.value)
                      IN  IF a.exc # "none"
                          THEN [st |-> a.st, exc |-> a.exc, entry |-> NoValue, tier |-> "",
                                calls |-> <<"cache.search", "source.search", "cache.add">>]
                          ELSE [st |-> a.st, exc |-> "none", entry |-> s.value, tier |-> src,
                                calls |-> <<"cache.search", "source.search", "cache.add">>]

(* -------------------------------- state -------------------------------- *)

VARIABLES
    head,       \* DataList: the first node, or Nil
    next,       \* DataNode.next of every allocated node
    data,       \* DataNode.data of every allocated node
    current,    \* DataList: the traversal cursor
    count,      \* DictionaryEntryCache.count
    capacity,   \* DictionaryEntryCache.capacity
    dictionary, \* LocalDictionary.dictionary
    source,     \* Dictionary.source ("unset": the cache is used on its own;
                \* "unbuilt": there is no cache object)
    stamp,      \* history: per list position, the rank of the node's last
                \* touch (1 = touched longest ago)
    pre,        \* history: the list as it was before the last call
    unlinked,   \* history: the nodes the last call unlinked from the list
    hist        \* history: the last calls, oldest first, as far back as the
                \* properties look: the trailing run of successful adds (else
                \* the last call alone) of a cache used on its own, the last
                \* Window calls of Dictionary.search (the last call alone
                \* where the capacity of its cache varies)

vars == <<head, next, data, current, count, capacity, dictionary, source, stamp, pre, unlinked, hist>>

\* The cache as a list state.
Now ==
    [head |-> head, next |-> next, data |-> data, current |-> current,
     count |-> count, capacity |-> capacity]

\* How many calls of Dictionary.search hist remembers.
Window == 3

\* h with call c appended, cut to its last n calls.
Push(h, c, n) == IF Len(h) < n THEN Append(h, c) ELSE Append(Tail(h), c)

\* The touch ranks, head first, after a call that took the list from S0 (with
\* ranks st) to S: a node that was not in the list before is the one just
\* touched.
Touch(S0, st, S) ==
    LET c0 == Chain(S0)
        c == Chain(S)
        raw == [i \in 1..Len(c) |->
                   IF c[i] \in Range(c0) THEN st[Address(c0, c[i])] ELSE Len(c0) + 1]
    IN  [i \in 1..Len(c) |-> Cardinality({j \in 1..Len(c) : raw[j] <= raw[i]})]

\* The nodes of S0 (with ranks st) that are no longer in the list S.
Unlinked(S0, st, S) ==
    LET c0 == Chain(S0)
        c == Chain(S)
    IN  {[entry |-> S0.data[c0[i]], stamp |-> st[i]] : i \in {k \in 1..Len(c0) : c0[k] \notin Range(c)}}

\* The call's effect on the program state, and the history of it.
Commit(S, h) ==
    \E T \in {Collect(S)} :
        /\ head' = T.head
        /\ next' = T.next
        /\ data' = T.data
        /\ current' = T.current
        /\ count' = T.count
        /\ capacity' = T.capacity
        /\ stamp' = Touch(Now, stamp, S)
        /\ unlinked' = Unlinked(Now, stamp, S)
        /\ pre' = [contents |-> Contents(Now), count |-> count, stamp |-> stamp, current |-> current]
        /\ hist' = h
        /\ UNCHANGED <<source, dictionary>>

\* The record of a call: what was called with what, how it ended (exc), what
\* it returned (entry, tier), the calls it made in turn, and the service's
\* response when it was asked.
Call(op, word, arg, r, tier, calls, resp) ==
    [op |-> op, word |-> word, arg |-> arg, exc |-> r.exc, entry |-> r.entry,
     tier |-> tier, calls |-> calls, resp |-> resp]

InitCache ==
    /\ head = Nil
    /\ next = NewCache(capacity).next
    /\ data = NewCache(capacity).data
    /\ current = Nil
    /\ count = 0
    /\ stamp = <<>>
    /\ unlinked = {}
    /\ pre = [contents |-> <<>>, count |-> 0, stamp |-> <<>>, current |-> Nil]
    /\ hist = <<>>

\* A DictionaryEntryCache(capacity) used on its own.
Init ==
    /\ capacity \in 1..MaxCap
    /\ source = "unset"
    /\ dictionary = LocalEntries
    /\ InitCache

\* The values add is called with: a record for every word, a second record
\* for one of the words, and a value that is no record.
AddValues ==
    {DictionaryEntry(w, "d1") : w \in Words} \cup {DictionaryEntry("run", "d2"), WordNotFound}

\* cache.add(entry)
Add(entry) ==
    /\ source = "unset"
    /\ \E r \in {CacheAdd(Now, entry)} :
       LET call == Call("add", entry.word, entry, [exc |-> r.exc, entry |-> NoValue], "", r.ev, NoResponse)
           run == IF hist # <<>> /\ hist[Len(hist)].op = "add" /\ hist[Len(hist)].exc = "none"
                  THEN hist ELSE <<>>
       IN  Commit(r.st, IF r.exc = "none" THEN Push(run, call, capacity + 1) ELSE <<call>>)

\* cache.search(word)
Search(word) ==
    /\ source = "unset"
    /\ \E r \in {CacheSearch(Now, word)} :
           Commit(r.st, <<Call("search", word, NoValue, r, "", r.ev, NoResponse)>>)

Next ==
    \/ \E entry \in AddValues : Add(entry)
    \/ \E word \in Words : Search(word)

Spec == Init /\ [][Next]_vars

\* The capacities the constructor is called with.
CapacityArgs == (0 - 1)..MaxCap

\* No cache object yet.
InitCtor ==
    /\ capacity = 0
    /\ source = "unbuilt"
    /\ dictionary = LocalEntries
    /\ InitCache

\* cache = DictionaryEntryCache(cap): on ValueError there is no object.
Construct(cap) ==
    /\ source = "unbuilt"
    /\ hist = <<>>
    /\ \E r \in {CacheInit(cap)} :
          /\ hist' = <<[op |-> "__init__", capacity |-> cap, exc |-> r.exc]>>
          /\ IF r.exc = "none"
             THEN /\ source' = "unset"
                  /\ head' = r.st.head
                  /\ next' = r.st.next
                  /\ data' = r.st.data
                  /\ current' = r.st.current
                  /\ count' = r.st.count
                  /\ capacity' = r.st.capacity
             ELSE UNCHANGED <<source, head, next, data, current, count, capacity>>
          /\ UNCHANGED <<stamp, pre, unlinked, dictionary>>

NextCtor ==
    \/ \E cap \in CapacityArgs : Construct(cap)
    \/ Next

\* A cache from its construction on.
SpecCtor == InitCtor /\ [][NextCtor]_vars

\* The dictionary files of the model: what they list under "entries".
Files == UNION {[1..n -> JsonObjects] : n \in 0..MaxFile}

\* A LocalDictionary(file) used on its own; there is no cache object.
InitLocal ==
    /\ capacity = 0
    /\ source = "unbuilt"
    /\ dictionary \in {LocalDictionaryInit(f) : f \in Files}
    /\ InitCache

\* local.search(word)
LocalLookup(word) ==
    \E r \in {LocalDictionarySearch(dictionary, word)} :
        /\ dictionary' = r.dictionary
        /\ hist' = Push(hist, Call("LocalDictionary.search", word, NoValue,
                                   [exc |-> r.exc, entry |-> r.value], "", <<>>, NoResponse), Window)
        /\ UNCHANGED <<head, next, data, current, count, capacity, source, stamp, pre, unlinked>>

NextLocal == \E word \in Words : LocalLookup(word)

SpecLocal == InitLocal /\ [][NextLocal]_vars

\* As Dictionary.__init__, but the cache is built with capacity 2.
InitDictRoomy ==
    /\ capacity = DictionaryCapacity + 1
    /\ source \in Sources
    /\ dictionary = LocalEntries
    /\ InitCache

\* Dictionary(source): the cache has capacity 1.
InitDict ==
    /\ capacity = DictionaryCapacity
    /\ source \in Sources
    /\ dictionary = LocalEntries
    /\ InitCache

\* dictionary.search(word); resp is the service's answer when it is asked.
DictionarySearch(word, resp) ==
    /\ source \in Sources
    /\ \E r \in {DictSearch(Now, source, word, resp)} :
       LET asked == source = "OXFORD_ONLINE" /\ "source.search" \in Range(r.calls)
       IN  /\ asked \/ resp = NoResponse
           /\ asked => resp \in Responses(Lower(word))
           /\ Commit(r.st, Push(hist, Call("Dictionary.search", word, NoValue, r, r.tier, r.calls, resp), Window))

NextDict ==
    \E word \in Words : \E resp \in Responses(Lower(word)) \cup {NoResponse} :
        DictionarySearch(word, resp)

SpecDict == InitDict /\ [][NextDict]_vars

\* A Dictionary whose cache (the attribute dictionary_entry_cache) has been
\* replaced by a DictionaryEntryCache of any capacity.
InitDictAny ==
    /\ capacity \in 1..MaxCap
    /\ source \in Sources
    /\ dictionary = LocalEntries
    /\ InitCache

\* dictionary.search(word), hist remembering the last call alone.
DictionarySearchLast(word, resp) ==
    /\ source \in Sources
    /\ \E r \in {DictSearch(Now, source, word, resp)} :
       LET asked == source = "OXFORD_ONLINE" /\ "source.search" \in Range(r.calls)
       IN  /\ asked \/ resp = NoResponse
           /\ asked => resp \in Responses(Lower(word))
           /\ Commit(r.st, <<Call("Dictionary.search", word, NoValue, r, r.tier, r.calls, resp)>>)

NextDictAny ==
    \E word \in Words : \E resp \in Responses(Lower(word)) \cup {NoResponse} :
        DictionarySearchLast(word, resp)

SpecDictAny == InitDictAny /\ [][NextDictAny]_vars

\* time_func(func, word) for func = dictionary.search: the result of the call
\* and how long it took.  The clock counts the calls made to the cache and
\* to the source.
TimeFunc(S, src, word, resp) ==
    LET result == DictSearch(S, src, word, resp)
    IN  [result |-> result, duration |-> Len(result.calls)]

\* What one pass of the loop of main() has printed: nothing yet ("none"), the
\* entry with its tier and time ("result"), the message of the except clause
\* ("error"), or the traceback of an exception that ends the program.
Printed(kind, entry, tier, seconds) ==
    [kind |-> kind, entry |-> entry, tier |-> tier, seconds |-> seconds]

\* What the loop prints when a search raises exc.
Raised(exc) == Printed(IF exc = "KeyError" THEN "error" ELSE "traceback", NoValue, "", 0)

\* main() is waiting for a word.
AtPrompt == IF hist = <<>> THEN TRUE ELSE hist[Len(hist)].printed.kind \in {"result", "error"}

\* main() has made its first search and is about to make the timed one.
AtTimed == Len(hist) = 1 /\ hist[1].line = "first" /\ hist[1].exc = "none"

\* main(): dictionary = Dictionary(), the online source by default.
InitMain ==
    /\ capacity = DictionaryCapacity
    /\ source = "OXFORD_ONLINE"
    /\ dictionary = LocalEntries
    /\ InitCache

\* main(): word = input(...); entry, source = dictionary.search(word).  hist
\* holds the searches of the current pass of the loop.
MainInput(word, resp) ==
    /\ AtPrompt
    /\ \E r \in {DictSearch(Now, source, word, resp)} :
       LET asked == "source.search" \in Range(r.calls)
       IN  /\ asked \/ resp = NoResponse
           /\ asked => resp \in Responses(Lower(word))
           /\ Commit(r.st, <<Call("Dictionary.search", word, NoValue, r, r.tier, r.calls, resp)
                               @@ [line |-> "first",
                                   printed |-> IF r.exc = "none" THEN Printed("none", NoValue, "", 0)
                                               ELSE Raised(r.exc)]>>)

\* As the timed search, but what is printed is the result of the timed call.
MainTimedShowsTimed(resp) ==
    /\ AtTimed
    /\ \E t \in {TimeFunc(Now, source, hist[1].word, resp)} :
       LET r == t.result
           asked == "source.search" \in Range(r.calls)
       IN  /\ asked \/ resp = NoResponse
           /\ asked => resp \in Responses(Lower(hist[1].word))
           /\ Commit(r.st, <<hist[1],
                              Call("Dictionary.search", hist[1].word, NoValue, r, r.tier, r.calls, resp)
                               @@ [line |-> "timed",
                                   printed |-> IF r.exc = "none"
                                               THEN Printed("result", r.entry, r.tier, t.duration)
                                               ELSE Raised(r.exc)]>>)

\* main(): delta_time = time_func(dictionary.search, word); print(...), or the
\* except clause.
MainTimed(resp) ==
    /\ AtTimed
    /\ \E t \in {TimeFunc(Now, source, hist[1].word, resp)} :
       LET r == t.result
           asked == "source.search" \in Range(r.calls)
       IN  /\ asked \/ resp = NoResponse
           /\ asked => resp \in Responses(Lower(hist[1].word))
           /\ Commit(r.st, <<hist[1],
                              Call("Dictionary.search", hist[1].word, NoValue, r, r.tier, r.calls, resp)
                               @@ [line |-> "timed",
                                   printed |-> IF r.exc = "none"
                                               THEN Printed("result", hist[1].entry, hist[1].tier, t.duration)
                                               ELSE Raised(r.exc)]>>)

NextMain ==
    \/ \E word \in Words : \E resp \in Responses(Lower(word)) \cup {NoResponse} : MainInput(word, resp)
    \/ \E resp \in UNION {Responses(Lower(w)) : w \in Words} \cup {NoResponse} : MainTimed(resp)

SpecMain == InitMain /\ [][NextMain]_vars

(* ------------------------------ properties ---------------------------- *)

\* The call made k calls before the last one (k = 0: the last call).
Back(k) == hist[Len(hist) - k]

Called(k) == Len(hist) > k

\* Sequence s without its i-th element.
Without(s, i) == [j \in 1..(Len(s) - 1) |-> IF j < i THEN s[j] ELSE s[j + 1]]

\* C1: after every add and search the list holds at most capacity nodes; an
\* add that takes count to capacity + 1 unlinks exactly one node before it
\* returns, and an add that does not exceed capacity unlinks none.
C1_CapacityBound ==
    /\ count <= capacity
    /\ Len(Chain(Now)) <= capacity
    /\ (Called(0) /\ Back(0).op = "add" /\ Back(0).exc = "none") =>
          IF pre.count + 1 > capacity
          THEN /\ Cardinality(unlinked) = 1
               /\ Len(Contents(Now)) = Len(pre.contents)
          ELSE /\ unlinked = {}
               /\ Contents(Now) = <<Back(0).arg>> \o pre.contents

\* An add into a full cache of capacity 2 or more has unlinked a node.
C1_Witness ==
    /\ Called(0) /\ Back(0).op = "add" /\ Back(0).exc = "none"
    /\ capacity >= 2 /\ pre.count = capacity
    /\ Cardinality(unlinked) = 1

\* C2: the node an add evicts is the one touched longest ago (a touch is the
\* node's add or a successful search for its word); in particular capacity + 1
\* adds in a row evict the first-added entry and keep the others, newest first.
C2_EvictsLeastRecent ==
    /\ (Called(0) /\ Back(0).op = "add") =>
          \A u \in unlinked : \A i \in 1..Len(pre.stamp) : u.stamp <= pre.stamp[i]
    /\ (Len(hist) = capacity + 1 /\ \A i \in 1..Len(hist) : hist[i].op = "add" /\ hist[i].exc = "none") =>
          /\ \A u \in unlinked : u.entry = hist[1].arg
          /\ unlinked # {}
          /\ Contents(Now) = [i \in 1..capacity |-> hist[capacity + 2 - i].arg]

\* Capacity 2 and three adds of distinct words in a row: the last add evicted
\* an entry.
C2_Witness ==
    /\ capacity = 2 /\ Len(hist) = 3
    /\ \A i \in 1..3 : hist[i].op = "add" /\ hist[i].exc = "none"
    /\ Cardinality({hist[i].arg.word : i \in 1..3}) = 3
    /\ unlinked # {}

\* C3: a successful search leaves the matched entry at the head, the other
\* entries in the order they had, and the resident entries and count as before.
C3_SearchPromotes ==
    (Called(0) /\ Back(0).op = "search" /\ Back(0).exc = "none") =>
        /\ Back(0).entry.word = Back(0).word
        /\ count = pre.count
        /\ \E i \in 1..Len(pre.contents) :
              /\ pre.contents[i] = Back(0).entry
              /\ Contents(Now) = <<Back(0).entry>> \o Without(pre.contents, i)

\* A search matched the middle entry of three.
C3_Witness ==
    /\ Called(0) /\ Back(0).op = "search" /\ Back(0).exc = "none"
    /\ Len(pre.contents) = 3
    /\ pre.contents[2].word = Back(0).word
    /\ pre.contents[1].word # Back(0).word
    /\ pre.contents[3].word # Back(0).word

\* C8: between calls, count is the number of nodes reachable from the head.
C8_CountIsLength == count = Len(Chain(Now))

\* A failing search of a cache that has evicted: count is still the capacity.
C8_Witness ==
    /\ Called(0) /\ Back(0).op = "search" /\ Back(0).exc = "KeyError"
    /\ capacity >= 2 /\ count = capacity
    /\ Len(Chain(Now)) = capacity

\* C10: add of a value that is no DictionaryEntry raises TypeError and leaves
\* order, membership and count as they were; no such value is ever resident.
C10_OnlyRecordsResident ==
    /\ (Called(0) /\ Back(0).op = "add" /\ ~IsDictionaryEntry(Back(0).arg)) =>
          /\ Back(0).exc = "TypeError"
          /\ Contents(Now) = pre.contents
          /\ count = pre.count
          /\ unlinked = {}
    /\ \A i \in 1..Len(Contents(Now)) : IsDictionaryEntry(Contents(Now)[i])

\* The sentinel string was offered to a cache holding entries.
C10_Witness ==
    /\ Called(0) /\ Back(0).op = "add" /\ Back(0).arg = WordNotFound
    /\ Back(0).exc = "TypeError"
    /\ count >= 2

\* The last call was Dictionary.search.
Looked(k) == Called(k) /\ Back(k).op = "Dictionary.search"

\* Before the last call the cache held an entry for the word asked.
WasCached == \E i \in 1..Len(pre.contents) : pre.contents[i].word = Back(0).word

\* C4: Dictionary.search asks the cache first and the source exactly when the
\* cache search fails; a hit returns tier CACHE, a miss the source resolves
\* returns the configured source's tier.
C4_CacheFirst ==
    Looked(0) =>
        /\ Back(0).calls[1] = "cache.search"
        /\ ("source.search" \in Range(Back(0).calls)) <=> ~WasCached
        /\ WasCached => Back(0).exc = "none" /\ Back(0).tier = "CACHE" /\ Back(0).resp = NoResponse
        /\ (~WasCached /\ Back(0).exc = "none") => Back(0).tier = source /\ Back(0).tier # "CACHE"

\* A miss answered by the source, then a hit answered by the cache.
C4_Witness ==
    /\ Looked(1) /\ Back(1).tier = source /\ Back(1).exc = "none"
    /\ Looked(0) /\ Back(0).tier = "CACHE" /\ Back(0).calls = <<"cache.search">>

\* C5: when a search for w was answered by the source, the next search for the
\* same w is answered by the cache, with the same record.
C5_SecondSearchFromCache ==
    (Looked(1) /\ Back(1).exc = "none" /\ Back(1).tier = source /\ Back(0).word = Back(1).word) =>
        /\ Back(0).exc = "none"
        /\ Back(0).tier = "CACHE"
        /\ Back(0).entry = Back(1).entry

\* The source has no entry for the word of the last call: the local mapping
\* lacks the key, or the service answered a status other than 200 or a body
\* without "id".
SourceLacks ==
    IF source = "LOCAL" THEN Back(0).word \notin LocalWords
    ELSE Back(0).resp.status # StatusOK \/ ~Back(0).resp.hasId

\* C6: Dictionary.search for a word absent from the cache and from the source
\* raises KeyError and leaves the cache's count and order as they were.
C6_MissRaisesKeyError ==
    (Looked(0) /\ ~WasCached /\ SourceLacks) =>
        /\ Back(0).exc = "KeyError"
        /\ Contents(Now) = pre.contents
        /\ count = pre.count

\* C7: a miss the source resolves adds the record to the cache before the
\* call returns; after every call that returns, the record returned is the
\* head of the cache.
C7_ReturnedIsHead ==
    (Looked(0) /\ Back(0).exc = "none") =>
        /\ head # Nil
        /\ data[head] = Back(0).entry
        /\ ~WasCached => Back(0).calls = <<"cache.search", "source.search", "cache.add">>

\* A miss the source resolved, into a cache that held another word.
C7_Witness ==
    /\ Looked(0) /\ Back(0).exc = "none" /\ Back(0).tier = source
    /\ pre.count = 1 /\ pre.contents[1].word # Back(0).entry.word
    /\ data[head] = Back(0).entry

\* C9: with capacity 1, after a call that returns the cache holds the record
\* returned and nothing else; searching run, run, walk is answered by the
\* source, the cache, the source, and leaves walk alone in the cache.
C9_CapacityOne ==
    /\ (Looked(0) /\ Back(0).exc = "none") =>
          /\ Contents(Now) = <<Back(0).entry>>
          /\ count = 1
    /\ ( /\ Looked(2)
         /\ Back(2).word = "run" /\ Back(1).word = "run" /\ Back(0).word = "walk"
         /\ \A k \in 0..2 : Back(k).exc = "none"
         /\ Back(2).tier = source ) =>
          /\ Back(1).tier = "CACHE"
          /\ Back(0).tier = source
          /\ Contents(Now) = <<Back(0).entry>>
          /\ Back(0).entry.word = "walk"
          /\ unlinked = {[entry |-> Back(1).entry, stamp |-> 1]}

\* run, run, walk were searched in that order, all found, run first in the
\* source.
C9_Witness ==
    /\ Looked(2)
    /\ Back(2).word = "run" /\ Back(1).word = "run" /\ Back(0).word = "walk"
    /\ \A k \in 0..2 : Back(k).exc = "none"
    /\ Back(2).tier = source
    /\ Contents(Now) = <<Back(0).entry>>

\* C11: construction with a capacity below 1 raises ValueError and leaves no
\* cache to use; with a capacity of 1 or more it gives an empty cache of count
\* 0 and that capacity; the capacity of a cache never changes.
C11_Construction ==
    /\ []((Called(0) /\ Back(0).op = "__init__") =>
            IF Back(0).capacity < 1
            THEN Back(0).exc = "ValueError" /\ source = "unbuilt"
            ELSE /\ Back(0).exc = "none" /\ source = "unset"
                 /\ capacity = Back(0).capacity
                 /\ count = 0 /\ head = Nil /\ Chain(Now) = <<>>)
    /\ [](source = "unset" => capacity >= 1)
    /\ [][source = "unset" => capacity' = capacity /\ source' = "unset"]_vars

\* A cache built with capacity 2 has evicted an entry and still has capacity 2.
C11_Witness ==
    /\ source = "unset" /\ capacity = 2
    /\ Called(0) /\ Back(0).op = "add" /\ unlinked # {}

\* The constructor was called with capacity 0.
C11_WitnessRefused ==
    /\ Called(0) /\ Back(0).op = "__init__" /\ Back(0).capacity = 0
    /\ source = "unbuilt"

\* C12: LocalDictionary.search(word) returns the loaded entry whose word is
\* exactly word when there is one and raises KeyError otherwise; either way
\* the loaded mapping stays as it was.
C12_LocalLookup ==
    /\ []((Called(0) /\ Back(0).op = "LocalDictionary.search") =>
            LET loaded == {dictionary[k] : k \in DOMAIN dictionary}
                same == {e \in loaded : e.word = Back(0).word}
            IN  IF same # {}
                THEN Back(0).exc = "none" /\ Back(0).entry \in same
                ELSE Back(0).exc = "KeyError")
    /\ [][dictionary' = dictionary]_vars

\* "Run" was looked up in a mapping that has "run" but not "Run", after a
\* lookup of "run" that succeeded.
C12_Witness ==
    /\ Called(1) /\ Back(1).word = "run" /\ Back(1).exc = "none"
    /\ Back(0).op = "LocalDictionary.search" /\ Back(0).word = "Run"
    /\ Back(0).exc = "KeyError"
    /\ DOMAIN dictionary = {"run"}

\* C13: remove_tail never raises RuntimeError: it is entered (by an add of a
\* record that takes count past capacity) with at least 2 nodes in the list
\* and unlinks exactly one.
C13_NoRuntimeError ==
    /\ Called(0) => Back(0).exc # "RuntimeError"
    /\ ( /\ Called(0) /\ Back(0).op = "add" /\ IsDictionaryEntry(Back(0).arg)
         /\ pre.count + 1 > capacity ) =>
          /\ Len(pre.contents) + 1 >= 2
          /\ Back(0).exc = "none"
          /\ Cardinality(unlinked) = 1
          /\ Len(Chain(Now)) = Len(pre.contents)

\* An add evicted from a cache of capacity 1: remove_tail ran on 2 nodes.
C13_Witness ==
    /\ Called(0) /\ Back(0).op = "add" /\ Back(0).exc = "none"
    /\ capacity = 1 /\ Len(pre.contents) = 1
    /\ Cardinality(unlinked) = 1

\* C14: cache.search(word) raises KeyError exactly when no resident entry has
\* that very word, and then leaves order, membership and count as they were;
\* when it succeeds it returns the entry nearest the head with that word.
C14_SearchFindsNearest ==
    (Called(0) /\ Back(0).op = "search") =>
        LET hits == {i \in 1..Len(pre.contents) : pre.contents[i].word = Back(0).word}
        IN  /\ Back(0).exc \in {"none", "KeyError"}
            /\ Back(0).exc = "KeyError" <=> hits = {}
            /\ Back(0).exc = "KeyError" =>
                  /\ Contents(Now) = pre.contents
                  /\ count = pre.count
                  /\ unlinked = {}
            /\ Back(0).exc = "none" =>
                  \E i \in hits : /\ \A j \in hits : i <= j
                                  /\ Back(0).entry = pre.contents[i]

\* Two different entries for the searched word were resident.
C14_Witness ==
    /\ Called(0) /\ Back(0).op = "search" /\ Back(0).exc = "none"
    /\ \E i, j \in 1..Len(pre.contents) :
          /\ i < j
          /\ pre.contents[i].word = Back(0).word
          /\ pre.contents[j].word = Back(0).word
          /\ pre.contents[i] # pre.contents[j]

\* The DataList calls that change the links of the list.
Modifies == {"add_to_head", "remove", "remove_after"}

\* How many times the last call advanced the cursor.
Iterations == Cardinality({k \in 1..Len(Back(0).calls) : Back(0).calls[k] = "iterate"})

\* C15: every scan of search and of remove_tail starts at the first node,
\* wherever the cursor was left (also on a node a search has unlinked): the
\* cursor is advanced only after a reset in the same call, never after a
\* change to the list since that reset, and as often as a scan from the head
\* takes.
C15_TraversalsRestart ==
    (Called(0) /\ Back(0).op \in {"add", "search"}) =>
        LET ev == Back(0).calls
            n == Len(pre.contents)
            hits == {i \in 1..n : pre.contents[i].word = Back(0).word}
        IN  /\ \A k \in 1..Len(ev) : ev[k] = "iterate" =>
                  \E j \in 1..(k - 1) : /\ ev[j] = "reset_current"
                                        /\ \A m \in (j + 1)..(k - 1) : ev[m] \notin Modifies
            /\ (Back(0).op = "search" /\ hits = {}) => Iterations = n + 1
            /\ (Back(0).op = "search" /\ hits # {}) =>
                  Iterations \in hits /\ \A i \in hits : Iterations <= i
            /\ (Back(0).op = "add" /\ unlinked # {}) => Iterations = n
            /\ (Back(0).op = "add" /\ unlinked = {}) => Iterations = 0

\* A search began with the cursor on a node an earlier search had unlinked,
\* and found its word at the second of three nodes.
C15_Witness ==
    /\ Called(0) /\ Back(0).op = "search" /\ Back(0).exc = "none"
    /\ Len(pre.contents) = 3
    /\ pre.current > Len(pre.contents)
    /\ Iterations = 2

\* The next links lead from the head through distinct nodes to the end.
Acyclic(S) ==
    LET c == Chain(S)
    IN  /\ \A i, j \in 1..Len(c) : c[i] = c[j] => i = j
        /\ IF c = <<>> THEN S.head = Nil ELSE S.next[c[Len(c)]] = Nil

\* The nodes the scan of the last call came to: one for each iterate() that
\* returned a node (a search raises KeyError after the iterate() that
\* returned None).
Visited ==
    IF Back(0).op = "search" /\ Back(0).exc = "KeyError" THEN Iterations - 1 ELSE Iterations

\* C16: after any adds and searches the chain of nodes has no cycle, and no
\* scan runs on: a search visits at most count nodes, the eviction scan after
\* a head insertion at most count + 1 (count as it was before the call).
C16_ScansTerminate ==
    /\ Acyclic(Now)
    /\ (Called(0) /\ Back(0).op \in {"add", "search"}) =>
           /\ Back(0).exc # "Diverges"
           /\ Back(0).op = "search" => Visited <= pre.count
           /\ Back(0).op = "add" => Visited <= pre.count + 1

\* A search went through all three nodes of a cache without a match.
C16_Witness ==
    /\ Called(0) /\ Back(0).op = "search" /\ Back(0).exc = "KeyError"
    /\ pre.count = 3
    /\ Visited = 3

\* No two entries of the list have the same word.
NoDuplicates(S) ==
    LET c == Contents(S)
    IN  \A i, j \in 1..Len(c) : c[i].word = c[j].word => i = j

\* The record call c put in the cache, if it put one, has the word asked for.
Faithful(c) == ("cache.add" \in Range(c.calls) /\ c.exc = "none") => c.entry.word = c.word

\* C17: whatever the capacity, a cache filled by Dictionary.search alone never
\* holds two entries of one word, as long as every record the source returns
\* has the word that was asked for: the cache starts empty, and a search whose
\* record (if any) has the word asked for adds no duplicate.  add on its own
\* does not look for duplicates: adding a resident entry again leaves two of
\* them, unless the old one was the tail of a full cache.
C17_NoDuplicateWords ==
    /\ NoDuplicates(Now)
    /\ [][(NoDuplicates(Now) /\ Faithful(hist'[Len(hist')])) => NoDuplicates(Now')]_vars
    /\ [](\A i \in 1..Len(Contents(Now)) :
             (count < capacity \/ i < Len(Contents(Now))) =>
                 ~NoDuplicates(CacheAdd(Now, Contents(Now)[i]).st))

\* A cache with room for more than one entry holds two, the second fetched
\* from the source under the word asked for.
C17_Witness ==
    /\ Called(0) /\ Back(0).op = "Dictionary.search" /\ Back(0).exc = "none"
    /\ "cache.add" \in Range(Back(0).calls)
    /\ Back(0).entry.word = Back(0).word
    /\ capacity >= 2 /\ Len(Contents(Now)) = 2
    /\ NoDuplicates(Now)

\* The pass of the loop for the last word entered is over.
PassOver == hist # <<>> /\ hist[Len(hist)].printed.kind # "none"

\* The timed search found its word in the cache and asked nothing else.
TimedHit ==
    /\ hist[2].exc = "none" /\ hist[2].tier = "CACHE"
    /\ hist[2].calls = <<"cache.search">>
    /\ hist[2].resp = NoResponse

\* What a pass of the loop prints: the entry and tier of the first search
\* and the time of the second.
PrintsFirstTimesSecond ==
    (PassOver /\ hist[Len(hist)].printed.kind = "result") =>
        /\ Len(hist) = 2
        /\ hist[2].printed.entry = hist[1].entry
        /\ hist[2].printed.tier = hist[1].tier
        /\ hist[2].printed.seconds = Len(hist[2].calls)

\* C18 as stated: every word entered sets off two searches in a row for it
\* (looked at once the loop is back at its prompt), the entry and tier printed
\* are those of the first and the time that of the second, and the second is
\* a cache hit that leaves the source alone whenever the first returned a
\* record of the word entered.
C18_TwoSearchesPerWord ==
    /\ (PassOver /\ AtPrompt) => (Len(hist) = 2 /\ hist[2].word = hist[1].word)
    /\ PrintsFirstTimesSecond
    /\ (Len(hist) = 2 /\ hist[1].entry.word = hist[1].word) => TimedHit

\* C18, amended: a word entered sets off one search and, when that one
\* returns normally, a second one for the same word right after it; a first
\* search that raises ends the pass with its message.  The entry and tier
\* printed are those of the first search and the time that of the second, and
\* the second is a cache hit that leaves the source alone whenever the first
\* returned a record of the word entered.
C18_TimedSearchHitsCache ==
    /\ PassOver =>
           IF hist[1].exc = "none"
           THEN Len(hist) = 2 /\ hist[2].word = hist[1].word /\ hist[2].line = "timed"
           ELSE Len(hist) = 1 /\ hist[1].printed.kind \in {"error", "traceback"}
    /\ PrintsFirstTimesSecond
    /\ (Len(hist) = 2 /\ hist[1].entry.word = hist[1].word) => TimedHit

\* The first search fetched "run" from the service, the timed one found it in
\* the cache; the loop printed the entry with the tier of the first search.
C18_Witness ==
    /\ PassOver /\ Len(hist) = 2
    /\ hist[1].word = "run" /\ hist[1].tier = "OXFORD_ONLINE"
    /\ hist[1].entry.word = "run"
    /\ TimedHit
    /\ hist[2].printed.kind = "result"
    /\ hist[2].printed.tier = "OXFORD_ONLINE"
    /\ hist[2].printed.seconds = 1

====
